---- MODULE Spec2Model ----
(***************************************************************************)
(* Peer-connection lifecycle core of libbitcoin-network: channel (two     *)
(* deadline timers over a proxy) and session (registration pipeline).     *)
(* Handlers are actions; continuations bound with BIND are the pipeline   *)
(* position reg[c].pc; callbacks in flight are counted per timer.         *)
(***************************************************************************)
EXTENDS Integers, Sequences, FiniteSets, TLC

\* ------------------------------------------------------------------ bounds
\* Callbacks of one timer that may be in flight before the callers of
\* signal_activity and of channel.start are held back.
MaxInFlight == 1
\* pseudo_random::next(1, max_uint64) is drawn from 1..MaxNonce.
MaxNonce == 2

\* ------------------------------------------------------------- constants
\* message::version::level::bip61
bip61 == 70002

Channels == {"a", "b"}
Versions == {bip61 - 1, bip61}
Nonces == 1..MaxNonce

success == "success"
operation_failed == "operation_failed"
service_stopped == "service_stopped"
channel_stopped == "channel_stopped"
channel_timeout == "channel_timeout"
address_in_use == "address_in_use"
bad_stream == "bad_stream"

\* Codes a handshake protocol can complete with.
HandshakeCodes == {success, channel_stopped}
\* Codes an external caller stops a channel with (stop codes are errors).
StopCodes == {bad_stream}

VARIABLES
    stopped_,            \* session::stopped_
    notify_on_connect_,  \* session::notify_on_connect_
    protocol_maximum,    \* settings: initial negotiated_version of a channel
    network,             \* p2p: stop signal, its subscribers, admitted channels
    start_log,           \* steps of the last session::start call, in order,
                         \* each with the session's state after it
    chan,                \* channel objects
    reg                  \* registration closures: position and handler log

vars == <<stopped_, notify_on_connect_, protocol_maximum, network, start_log,
          chan, reg>>

\* ----------------------------------------------------------- deadline timer
\* armed: a wait is pending (deadline::start cancels the pending wait first).
\* fired: callbacks in flight with success (natural expiry).
\* aborted: callbacks in flight with the cancelled status.
NewTimer == [armed |-> FALSE, fired |-> 0, aborted |-> 0]

deadline_start(t) ==
    [t EXCEPT !.armed = TRUE,
              !.aborted = @ + (IF t.armed THEN 1 ELSE 0)]

deadline_stop(t) ==
    [t EXCEPT !.armed = FALSE,
              !.aborted = @ + (IF t.armed THEN 1 ELSE 0)]

deadline_expire(t) == [t EXCEPT !.armed = FALSE, !.fired = @ + 1]

InFlight(t) == t.fired + t.aborted

\* ------------------------------------------------------------------ channel
\* state: proxy lifecycle ("aborted": stopped before the transport came up;
\* "stopped": stopped after it was active). subscribed: handle_remove is subscribed to the
\* channel's stop. relayed: the stop notification to handle_remove is in
\* flight. stops: codes stop was called with. teardowns: calls of stop that
\* found the channel active. timeouts: calls of stop made by the
\* timer callbacks. pending: handlers of transport
\* starts requested and not completed. at_start: notify_ and nonce_ as they
\* were when channel.start was last called. direct: for the last completed
\* channel.start of a caller other than the session, the transport's code
\* and the code handed to the caller's handler. stale: a timer callback was
\* delivered with success after the channel had stopped.
NewChannel(version) ==
    [state |-> "created", notify_ |-> FALSE, nonce_ |-> 0,
     negotiated_version |-> version,
     expiration_ |-> NewTimer, inactivity_ |-> NewTimer,
     subscribed |-> FALSE, relayed |-> FALSE,
     stops |-> {}, teardowns |-> 0, timeouts |-> 0,
     pending |-> {}, at_start |-> <<>>, direct |-> <<>>, stale |-> FALSE]

proxy_stopped(ch) == ch.state # "active"

\* Mutant: the service's stop status is not taken as a stop.
channel_stopped_ec_channel_only(ch, ec) ==
    proxy_stopped(ch) \/ ec = channel_stopped

channel_stopped_ec(ch, ec) ==
    proxy_stopped(ch) \/ ec = channel_stopped \/ ec = service_stopped

start_expiration(ch) ==
    IF proxy_stopped(ch) THEN ch
    ELSE [ch EXCEPT !.expiration_ = deadline_start(@)]

\* Mutant: the inactivity timer is restarted without the stopped check.
start_inactivity_unguarded(ch) ==
    [ch EXCEPT !.inactivity_ = deadline_start(@)]

start_inactivity(ch) ==
    IF proxy_stopped(ch) THEN ch
    ELSE [ch EXCEPT !.inactivity_ = deadline_start(@)]

handle_stopping(ch) ==
    [ch EXCEPT !.expiration_ = deadline_stop(@),
               !.inactivity_ = deadline_stop(@)]

\* Mutant: activity restarts the expiration timer too.
signal_activity_both(ch) == start_inactivity(start_expiration(ch))

signal_activity(ch) == start_inactivity(ch)

\* proxy::stop: marks the channel stopped, relays the code to the stop
\* subscribers (once: the subscriber is stopped and cleared), then gives the
\* channel the opportunity to stop its timers.
proxy_stop(ch, ec) ==
    handle_stopping(
        [ch EXCEPT !.state = IF @ \in {"created", "aborted"} THEN "aborted"
                             ELSE "stopped",
                   !.subscribed = FALSE,
                   !.relayed = @ \/ ch.subscribed,
                   !.stops = @ \cup {ec},
                   !.teardowns = @ + (IF ch.state = "active" THEN 1 ELSE 0)])

channel_stop(ch, ec) == proxy_stop(ch, ec)

\* proxy::start: fails fast unless the channel is in its initial state and
\* the transport comes up (ok).
proxy_start_code(ch, ok) ==
    IF ch.state = "created" /\ ok THEN success ELSE operation_failed

proxy_start(ch, ok) ==
    IF proxy_start_code(ch, ok) = success
    THEN [ch EXCEPT !.state = "active"]
    ELSE ch

\* Mutant: do_start starts the expiration timer only.
do_start_one_timer(ch, ec) == start_expiration(ch)

\* channel::do_start(const code&, handler): the code is not looked at.
do_start(ch, ec) == start_inactivity(start_expiration(ch))

do_start_code(ec) == success

\* The stop made by a timer callback.
timeout_stop(ch) ==
    channel_stop([ch EXCEPT !.timeouts = @ + 1], channel_timeout)

\* Mutant: the callback looks at the status only, not at the channel.
handle_expiration_status_only(ch, ec) ==
    IF ec = channel_stopped \/ ec = service_stopped THEN ch
    ELSE timeout_stop(ch)

handle_expiration(ch, ec) ==
    IF channel_stopped_ec(ch, ec) THEN ch ELSE timeout_stop(ch)

\* Mutant: the inactivity callback looks at the channel only, not at the
\* status it is delivered with.
handle_inactivity_any_status(ch, ec) ==
    IF proxy_stopped(ch) THEN ch ELSE timeout_stop(ch)

handle_inactivity(ch, ec) ==
    IF channel_stopped_ec(ch, ec) THEN ch ELSE timeout_stop(ch)

\* ------------------------------------------------------------------ session
\* A registration closure: pc is the continuation that is pending, events
\* the handler invocations in order, stores the results of Registry.store,
\* removes the calls of Registry.remove, protocols the handshake variants
\* attached and started, transport the code the transport start ended with,
\* concurrent the other registrations in flight when this one was made,
\* listed whether the channel was in the admitted set when handle_remove
\* invoked handle_stopped.
NewRegistration ==
    [pc |-> "idle", events |-> <<>>, stores |-> <<>>, removes |-> 0,
     protocols |-> <<>>, transport |-> "none", concurrent |-> {},
     listed |-> FALSE]

Started(ec) == [h |-> "handle_started", ec |-> ec]
Stopped(ec) == [h |-> "handle_stopped", ec |-> ec]

\* A pipeline stage works on x = [ch, r, adm]: the channel, the registration
\* closure and the Registry's admitted set.

\* p2p::store: admission with deduplication by nonce (the two channels of
\* the model are connections to different addresses).
store_code(c, adm) ==
    IF \E d \in adm : chan[d].nonce_ = chan[c].nonce_
    THEN address_in_use ELSE success

\* Mutant: handle_stopped is invoked before the channel is removed.
handle_remove_stopped_first(c, x) ==
    LET y == [x EXCEPT !.r.events = Append(@, Stopped(success)),
                       !.r.listed = c \in x.adm,
                       !.r.pc = "done"]
    IN  [y EXCEPT !.adm = @ \ {c}, !.r.removes = @ + 1]

handle_remove(c, x) ==
    LET y == [x EXCEPT !.adm = @ \ {c}, !.r.removes = @ + 1]
    IN  [y EXCEPT !.r.events = Append(@, Stopped(success)),
                  !.r.listed = c \in y.adm,
                  !.r.pc = "done"]

\* proxy::subscribe_stop: a subscription made after the stop is answered at
\* once; otherwise the handler waits for the relay of proxy::stop.
subscribe_stop(c, x) ==
    IF proxy_stopped(x.ch)
    THEN handle_remove(c, x)
    ELSE [x EXCEPT !.ch.subscribed = TRUE, !.r.pc = "subscribed"]

\* Mutant: the failure branch does not stop the channel.
handle_start_no_stop(ec, c, x) ==
    LET y == IF ec # success
             THEN [x EXCEPT !.r.events = Append(@, Stopped(ec)),
                            !.r.pc = "done"]
             ELSE subscribe_stop(c, x)
    IN  [y EXCEPT !.r.events = Append(@, Started(ec))]

\* Mutant: the failure branch reports the start before the stop.
handle_start_started_first(ec, c, x) ==
    IF ec # success
    THEN [x EXCEPT !.ch = channel_stop(@, ec),
                   !.r.events = @ \o <<Started(ec), Stopped(ec)>>,
                   !.r.pc = "done"]
    ELSE LET y == subscribe_stop(c, x)
         IN  [y EXCEPT !.r.events = Append(@, Started(ec))]

\* Mutant: the failure branch forgets handle_stopped.
handle_start_leak(ec, c, x) ==
    LET y == IF ec # success
             THEN [x EXCEPT !.ch = channel_stop(@, ec), !.r.pc = "done"]
             ELSE subscribe_stop(c, x)
    IN  [y EXCEPT !.r.events = Append(@, Started(ec))]

\* Mutant: the success branch does not subscribe handle_remove.
handle_start_unsubscribed(ec, c, x) ==
    LET y == IF ec # success
             THEN [x EXCEPT !.ch = channel_stop(@, ec),
                            !.r.events = Append(@, Stopped(ec)),
                            !.r.pc = "done"]
             ELSE [x EXCEPT !.r.pc = "subscribed"]
    IN  [y EXCEPT !.r.events = Append(@, Started(ec))]

\* Mutant: the failure branch also removes the Registry's entry for the
\* channel's nonce.
handle_start_evicts(ec, c, x) ==
    LET y == IF ec # success
             THEN [x EXCEPT !.ch = channel_stop(@, ec),
                            !.adm = {d \in @ : chan[d].nonce_ # x.ch.nonce_},
                            !.r.removes = @ + 1,
                            !.r.events = Append(@, Stopped(ec)),
                            !.r.pc = "done"]
             ELSE subscribe_stop(c, x)
    IN  [y EXCEPT !.r.events = Append(@, Started(ec))]

handle_start(ec, c, x) ==
    LET y == IF ec # success
             THEN [x EXCEPT !.ch = channel_stop(@, ec),
                            !.r.events = Append(@, Stopped(ec)),
                            !.r.pc = "done"]
             ELSE subscribe_stop(c, x)
    IN  [y EXCEPT !.r.events = Append(@, Started(ec))]

handshake_complete(c, x) ==
    LET code == store_code(c, x.adm)
    IN  handle_start(code, c,
            [x EXCEPT !.adm = IF code = success THEN @ \cup {c} ELSE @,
                      !.r.stores = Append(@, code)])

handle_handshake(ec, c, x) ==
    IF ec # success THEN handle_start(ec, c, x) ELSE handshake_complete(c, x)

\* Mutant: the threshold version itself gets the legacy variant.
attach_handshake_protocols_above(c, x) ==
    [x EXCEPT !.r.pc = "handshake",
              !.r.protocols = Append(@,
                  IF x.ch.negotiated_version > bip61
                  THEN "protocol_version_70002"
                  ELSE "protocol_version_31402")]

attach_handshake_protocols(c, x) ==
    [x EXCEPT !.r.pc = "handshake",
              !.r.protocols = Append(@,
                  IF x.ch.negotiated_version >= bip61
                  THEN "protocol_version_70002"
                  ELSE "protocol_version_31402")]

handle_starting(ec, c, x) ==
    IF ec # success
    THEN handle_start(ec, c, x)
    ELSE attach_handshake_protocols(c, x)

\* channel::start: the transport start is requested on the channel as it is.
channel_start(ch, h) ==
    [ch EXCEPT !.pending = @ \cup {h},
               !.at_start = <<[notify_ |-> ch.notify_, nonce_ |-> ch.nonce_]>>]

\* Mutant: the channel is started before notify and nonce are assigned.
start_channel_start_first(c, nonce, x) ==
    [x EXCEPT !.ch = [channel_start(@, "session") EXCEPT
                          !.notify_ = notify_on_connect_,
                          !.nonce_ = nonce],
              !.r.pc = "starting"]

start_channel(c, nonce, x) ==
    [x EXCEPT !.ch = channel_start(
                  [@ EXCEPT !.notify_ = notify_on_connect_,
                            !.nonce_ = nonce], "session"),
              !.r.pc = "starting"]

\* Mutant: the stopped session reports and then starts the channel anyway.
register_channel_no_return(c, nonce, x) ==
    IF stopped_
    THEN start_channel(c, nonce,
             [x EXCEPT !.r.events = @ \o <<Started(service_stopped),
                                           Stopped(service_stopped)>>])
    ELSE start_channel(c, nonce, x)

register_channel(c, nonce, x) ==
    IF stopped_
    THEN [x EXCEPT !.r.events = @ \o <<Started(service_stopped),
                                       Stopped(service_stopped)>>,
                   !.r.pc = "done"]
    ELSE start_channel(c, nonce, x)

\* Mutant: the stop signal leaves the flag as it is.
handle_stop_keeps(flag) == flag

\* p2p::subscribe_stop: the node-wide stop signal; a handler subscribed
\* after the signal fired is invoked at once.
handle_stop(flag) == TRUE

network_subscribe_stop(s) ==
    IF s.network.stopped
    THEN [s EXCEPT !.stopped_ = handle_stop(@)]
    ELSE [s EXCEPT !.network.subscribers = @ + 1]

\* A step of session::start, logged with the state it leaves.
Step(s, what) ==
    [s EXCEPT !.log = Append(@, [step |-> what, stopped_ |-> s.stopped_,
                                 subscribers |-> s.network.subscribers])]

\* Mutant: a start of a started session subscribes handle_stop again.
session_start_resubscribes(s) ==
    IF ~s.stopped_
    THEN Step(network_subscribe_stop(s), "handler(operation_failed)")
    ELSE LET s1 == Step([s EXCEPT !.stopped_ = FALSE], "stopped_ = false")
             s2 == Step(network_subscribe_stop(s1), "subscribe_stop")
         IN  Step(s2, "handler(success)")

\* session::start on s = [stopped_, network, log].
session_start(s) ==
    IF ~s.stopped_
    THEN Step(s, "handler(operation_failed)")
    ELSE LET s1 == Step([s EXCEPT !.stopped_ = FALSE], "stopped_ = false")
             s2 == Step(network_subscribe_stop(s1), "subscribe_stop")
         IN  Step(s2, "handler(success)")

\* ------------------------------------------------------------------ actions
Ctx(c) == [ch |-> chan[c], r |-> reg[c], adm |-> network.admitted]

Commit(c, x) ==
    /\ chan' = [chan EXCEPT ![c] = x.ch]
    /\ reg' = [reg EXCEPT ![c] = x.r]
    /\ network' = [network EXCEPT !.admitted = x.adm]

InFlightRegistrations == {d \in Channels : reg[d].pc \notin {"idle", "done"}}

Init ==
    /\ stopped_ = TRUE
    /\ notify_on_connect_ \in BOOLEAN
    /\ protocol_maximum \in Versions
    /\ network = [stopped |-> FALSE, subscribers |-> 0, admitted |-> {}]
    /\ start_log = <<>>
    /\ chan = [c \in Channels |-> NewChannel(protocol_maximum)]
    /\ reg = [c \in Channels |-> NewRegistration]

SessionStart ==
    /\ LET s == session_start(Step([stopped_ |-> stopped_,
                                     network |-> network, log |-> <<>>],
                                    "start"))
       IN  /\ stopped_' = s.stopped_
           /\ network' = s.network
           /\ start_log' = s.log
    /\ UNCHANGED <<notify_on_connect_, protocol_maximum, chan, reg>>

\* The node-wide stop signal fires: every subscribed handle_stop runs.
NodeStop ==
    /\ ~network.stopped
    /\ network' = [network EXCEPT !.stopped = TRUE, !.subscribers = 0]
    /\ stopped_' = IF network.subscribers > 0 THEN handle_stop(stopped_)
                   ELSE stopped_
    /\ UNCHANGED <<notify_on_connect_, protocol_maximum, start_log, chan, reg>>

RegisterChannel(c, nonce) ==
    /\ reg[c].pc = "idle"
    /\ Commit(c, register_channel(c, nonce,
           [Ctx(c) EXCEPT !.r.concurrent = InFlightRegistrations \ {c}]))
    /\ UNCHANGED <<stopped_, notify_on_connect_, protocol_maximum, start_log>>

\* A caller other than the session starts the channel.
ChannelStart(c) ==
    /\ "direct" \notin chan[c].pending
    /\ InFlight(chan[c].expiration_) < MaxInFlight
    /\ InFlight(chan[c].inactivity_) < MaxInFlight
    /\ chan' = [chan EXCEPT ![c] = channel_start(@, "direct")]
    /\ UNCHANGED <<stopped_, notify_on_connect_, protocol_maximum, network,
                   start_log, reg>>

\* The transport start requested by channel::start completes: do_start runs
\* with the transport's code and invokes the handler bound by the caller.
TransportStarted(c, h, ok) ==
    /\ h \in chan[c].pending
    /\ LET ec == proxy_start_code(chan[c], ok)
           ch == do_start(proxy_start([chan[c] EXCEPT !.pending = @ \ {h}], ok), ec)
           code == do_start_code(ec)
       IN  IF h = "direct"
           THEN /\ chan' = [chan EXCEPT ![c] =
                      [ch EXCEPT !.direct =
                          <<[transport |-> ec, handler |-> code]>>]]
                /\ UNCHANGED <<reg, network>>
           ELSE Commit(c, handle_starting(code, c,
                    [ch |-> ch, r |-> [reg[c] EXCEPT !.transport = ec],
                     adm |-> network.admitted]))
    /\ UNCHANGED <<stopped_, notify_on_connect_, protocol_maximum, start_log>>

\* The handshake protocol completes. It cannot succeed on a channel whose
\* transport never came up.
HandshakeComplete(c, ec) ==
    /\ reg[c].pc = "handshake"
    /\ ec = success => chan[c].state \in {"active", "stopped"}
    /\ Commit(c, handle_handshake(ec, c, Ctx(c)))
    /\ UNCHANGED <<stopped_, notify_on_connect_, protocol_maximum, start_log>>

SignalActivity(c) ==
    /\ InFlight(chan[c].inactivity_) < MaxInFlight
    /\ chan' = [chan EXCEPT ![c] = signal_activity(@)]
    /\ UNCHANGED <<stopped_, notify_on_connect_, protocol_maximum, network,
                   start_log, reg>>

Timers == {"expiration_", "inactivity_"}

\* A timer reaches its deadline: its callback is scheduled with success.
TimerExpire(c, t) ==
    /\ chan[c][t].armed
    /\ chan' = [chan EXCEPT ![c][t] = deadline_expire(@)]
    /\ UNCHANGED <<stopped_, notify_on_connect_, protocol_maximum, network,
                   start_log, reg>>

\* The callback leaves the timer's queue and is noted if it is stale.
Delivered(ch, t, ec) ==
    [ch EXCEPT ![t] = IF ec = success THEN [@ EXCEPT !.fired = @ - 1]
                      ELSE [@ EXCEPT !.aborted = @ - 1],
               !.stale = @ \/ (ec = success /\ proxy_stopped(ch))]

\* A callback of the expiration timer is delivered.
HandleExpiration(c, ec) ==
    /\ \/ ec = success /\ chan[c].expiration_.fired > 0
       \/ ec = channel_stopped /\ chan[c].expiration_.aborted > 0
    /\ chan' = [chan EXCEPT ![c] = handle_expiration(Delivered(@, "expiration_", ec), ec)]
    /\ UNCHANGED <<stopped_, notify_on_connect_, protocol_maximum, network,
                   start_log, reg>>

\* A callback of the inactivity timer is delivered.
HandleInactivity(c, ec) ==
    /\ \/ ec = success /\ chan[c].inactivity_.fired > 0
       \/ ec = channel_stopped /\ chan[c].inactivity_.aborted > 0
    /\ chan' = [chan EXCEPT ![c] = handle_inactivity(Delivered(@, "inactivity_", ec), ec)]
    /\ UNCHANGED <<stopped_, notify_on_connect_, protocol_maximum, network,
                   start_log, reg>>

\* A caller (an I/O failure, the node's shutdown) stops the channel.
ChannelStop(c, ec) ==
    /\ chan' = [chan EXCEPT ![c] = channel_stop(@, ec)]
    /\ UNCHANGED <<stopped_, notify_on_connect_, protocol_maximum, network,
                   start_log, reg>>

\* The stop relayed by proxy::stop reaches the subscribed handle_remove.
HandleRemove(c) ==
    /\ chan[c].relayed
    /\ Commit(c, handle_remove(c, [Ctx(c) EXCEPT !.ch.relayed = FALSE]))
    /\ UNCHANGED <<stopped_, notify_on_connect_, protocol_maximum, start_log>>

One == {"a"}

\* The registration pipeline of one channel, with the channel's timers. A
\* caller other than the session may have started the channel, once, before
\* it is registered.
Next ==
    \/ SessionStart
    \/ NodeStop
    \/ \E c \in One, n \in Nonces : RegisterChannel(c, n)
    \/ \E c \in One :
           reg[c].pc = "idle" /\ chan[c].direct = <<>> /\ ChannelStart(c)
    \/ \E c \in One, h \in {"session", "direct"}, ok \in BOOLEAN :
           TransportStarted(c, h, ok)
    \/ \E c \in One, ec \in HandshakeCodes : HandshakeComplete(c, ec)
    \/ \E c \in One, t \in Timers : TimerExpire(c, t)
    \/ \E c \in One, ec \in {success, channel_stopped} :
           HandleExpiration(c, ec)
    \/ \E c \in One, ec \in {success, channel_stopped} :
           HandleInactivity(c, ec)
    \/ \E c \in One, ec \in StopCodes : ChannelStop(c, ec)
    \/ \E c \in One : HandleRemove(c)

Spec == Init /\ [][Next]_vars

\* One channel under every interleaving of its own operations.
NextChannel ==
    \/ \E c \in One : ChannelStart(c)
    \/ \E c \in One, ok \in BOOLEAN : TransportStarted(c, "direct", ok)
    \/ \E c \in One : SignalActivity(c)
    \/ \E c \in One, t \in Timers : TimerExpire(c, t)
    \/ \E c \in One, ec \in {success, channel_stopped} :
           HandleExpiration(c, ec)
    \/ \E c \in One, ec \in {success, channel_stopped} :
           HandleInactivity(c, ec)
    \/ \E c \in One, ec \in StopCodes : ChannelStop(c, ec)

SpecChannel == Init /\ [][NextChannel]_vars

\* Two channels registered concurrently; they stop by an external stop or
\* by the pipeline's own stop.
NextPair ==
    \/ SessionStart
    \/ \E c \in Channels, n \in Nonces : RegisterChannel(c, n)
    \/ \E c \in Channels, ok \in BOOLEAN : TransportStarted(c, "session", ok)
    \/ \E c \in Channels, ec \in HandshakeCodes : HandshakeComplete(c, ec)
    \/ \E c \in Channels, ec \in StopCodes : ChannelStop(c, ec)
    \/ \E c \in Channels : HandleRemove(c)

SpecPair == Init /\ [][NextPair]_vars

\* The callbacks the registration waits for are each eventually delivered:
\* the transport start, the handshake completion, the timers' expiry and
\* callbacks, and the relay of the channel's stop.
Fairness ==
    \A c \in One :
        /\ WF_vars(\E ok \in BOOLEAN : TransportStarted(c, "session", ok))
        /\ WF_vars(\E ec \in HandshakeCodes : HandshakeComplete(c, ec))
        /\ \A t \in Timers : WF_vars(TimerExpire(c, t))
        /\ WF_vars(\E ec \in {success, channel_stopped} : HandleExpiration(c, ec))
        /\ WF_vars(\E ec \in {success, channel_stopped} : HandleInactivity(c, ec))
        /\ WF_vars(HandleRemove(c))

LiveSpec == Init /\ [][Next]_vars /\ Fairness

\* The inactivity timer's wait elapses unless it is restarted or stopped,
\* and every callback of the inactivity timer is eventually delivered.
FairnessChannel ==
    \A c \in One :
        /\ WF_vars(TimerExpire(c, "inactivity_"))
        /\ \A ec \in {success, channel_stopped} :
               WF_vars(HandleInactivity(c, ec))

LiveChannel == Init /\ [][NextChannel]_vars /\ FairnessChannel

\* ------------------------------------------------------------------- claims
Count(events, h) == Cardinality({i \in 1..Len(events) : events[i].h = h})

Fired(c, h) == Count(reg[c].events, h) > 0

\* C1: in every state of every registration handle_started has been invoked
\* at most once and handle_stopped at most once, and once the registration
\* has run to its end each has been invoked exactly once.
C1_ExactlyOnce ==
    \A c \in Channels :
        /\ Count(reg[c].events, "handle_started") <= 1
        /\ Count(reg[c].events, "handle_stopped") <= 1
        /\ reg[c].pc = "done" =>
              /\ Count(reg[c].events, "handle_started") = 1
              /\ Count(reg[c].events, "handle_stopped") = 1

\* A registration that was admitted and whose channel stopped later has ended.
C1_Witness ==
    \E c \in Channels :
        /\ reg[c].pc = "done"
        /\ reg[c].stores = <<success>>
        /\ reg[c].removes = 1
        /\ channel_timeout \in chan[c].stops

\* C2: under fairness every registration that was made eventually has both
\* handle_started and handle_stopped invoked.
C2_NoLeak ==
    \A c \in One :
        (reg[c].pc # "idle") ~>
            (Fired(c, "handle_started") /\ Fired(c, "handle_stopped"))

\* An admitted registration got its handle_stopped from handle_remove.
C2_Witness ==
    \E c \in One :
        /\ reg[c].removes = 1
        /\ reg[c].events = <<Started(success), Stopped(success)>>

SameNonce(c, d) ==
    c # d /\ chan[c].nonce_ # 0 /\ chan[c].nonce_ = chan[d].nonce_

\* C3 as claimed: of two registrations that carry the same nonce and were in
\* flight together, once both have asked for admission exactly one has been
\* admitted.
C3_ExactlyOneAdmitted ==
    \A c, d \in Channels :
        (/\ SameNonce(c, d)
         /\ d \in reg[c].concurrent
         /\ reg[c].stores # <<>>
         /\ reg[d].stores # <<>>)
        => ((reg[c].stores = <<success>>) # (reg[d].stores = <<success>>))

\* C3 as amended: two channels with the same nonce are never admitted at the
\* same time, and a registration whose admission collided had its channel
\* stopped with the collision code and both handlers invoked with it.
C3_NeverBothAdmitted ==
    \A c, d \in Channels :
        SameNonce(c, d) =>
            /\ ~(c \in network.admitted /\ d \in network.admitted)
            /\ reg[c].stores = <<address_in_use>> =>
                  /\ reg[c].events =
                        <<Stopped(address_in_use), Started(address_in_use)>>
                  /\ proxy_stopped(chan[c])
                  /\ address_in_use \in chan[c].stops
                  /\ c \notin network.admitted

\* Two concurrent registrations with one nonce: one admitted, one collided.
C3_Witness ==
    \E c, d \in Channels :
        /\ SameNonce(c, d)
        /\ d \in reg[c].concurrent
        /\ reg[c].stores = <<address_in_use>>
        /\ reg[d].stores = <<success>>
        /\ d \in network.admitted

\* The handler invocations a step adds to a registration.
NewEvents(c) ==
    SubSeq(reg[c].events', Len(reg[c].events) + 1, Len(reg[c].events'))

\* C4: register_channel on a stopped session invokes handle_started and
\* handle_stopped once each with service_stopped within the call and touches
\* neither the channel nor the Registry; such a registration never has a
\* transport start, a handshake, a store or a remove.
C4_StoppedSession ==
    /\ [][\A c \in Channels :
            (stopped_ /\ reg[c].pc = "idle" /\ reg'[c].pc # "idle") =>
                /\ reg'[c] = [reg[c] EXCEPT
                       !.pc = "done",
                       !.events = <<Started(service_stopped),
                                    Stopped(service_stopped)>>,
                       !.concurrent = reg'[c].concurrent]
                /\ chan'[c] = chan[c]
                /\ network' = network]_vars
    /\ [](\A c \in Channels :
            (reg[c].events # <<>> /\ reg[c].events[1] = Started(service_stopped)) =>
                /\ reg[c].pc = "done"
                /\ reg[c].events = <<Started(service_stopped),
                                     Stopped(service_stopped)>>
                /\ reg[c].transport = "none"
                /\ reg[c].protocols = <<>>
                /\ reg[c].stores = <<>>
                /\ reg[c].removes = 0
                /\ chan[c].nonce_ = 0
                /\ chan[c].notify_ = FALSE
                /\ "session" \notin chan[c].pending)

\* A registration refused after the node-wide stop signal reached the session.
C4_Witness ==
    \E c \in Channels :
        /\ network.stopped
        /\ start_log # <<>>
        /\ reg[c].events = <<Started(service_stopped), Stopped(service_stopped)>>

\* C5 as claimed: a step in which both handlers of a registration fire is the
\* stopped-session path of register_channel.
C5_OnlyStoppedPathTogether ==
    [][\A c \in Channels :
          Len(NewEvents(c)) = 2 => (stopped_ /\ reg[c].pc = "idle")]_vars

\* C5 as amended: the stopped-session path is the only one on which
\* handle_started fires before handle_stopped within one call; when both
\* fire together on another path it is inside handle_start, handle_stopped
\* first and handle_started last, with the same error on a failure and with
\* success only if the channel had stopped before handle_start subscribed.
C5_TogetherOnlyInFunnel ==
    [][\A c \in Channels :
          /\ Len(NewEvents(c)) <= 2
          /\ Len(NewEvents(c)) = 2 =>
                IF reg[c].pc = "idle"
                THEN /\ stopped_
                     /\ NewEvents(c) = <<Started(service_stopped),
                                         Stopped(service_stopped)>>
                ELSE /\ NewEvents(c)[1].h = "handle_stopped"
                     /\ NewEvents(c)[2].h = "handle_started"
                     /\ NewEvents(c)[1].ec = NewEvents(c)[2].ec
                     /\ NewEvents(c)[2].ec = success => proxy_stopped(chan[c])
          /\ (Len(NewEvents(c)) = 1 /\ NewEvents(c)[1].h = "handle_started") =>
                (NewEvents(c)[1].ec = success /\ reg'[c].pc = "subscribed")
          /\ (Len(NewEvents(c)) = 1 /\ NewEvents(c)[1].h = "handle_stopped") =>
                (NewEvents(c)[1].ec = success /\ reg[c].pc = "subscribed")]_vars

\* A handshake failure delivered both handlers from handle_start.
C5_Witness ==
    \E c \in Channels :
        /\ reg[c].protocols # <<>>
        /\ reg[c].events = <<Stopped(channel_stopped), Started(channel_stopped)>>

Steps(log) == [i \in 1..Len(log) |-> log[i].step]

\* C6: session.start on a started session only invokes the handler with
\* operation_failed, the flag still false and the stop subscriptions as they
\* were; on a stopped session it sets the flag to false, then subscribes
\* handle_stop to the node-wide stop signal, and only then invokes the
\* handler with success.
C6_SessionStart ==
    start_log # <<>> =>
        IF ~start_log[1].stopped_
        THEN /\ Steps(start_log) = <<"start", "handler(operation_failed)">>
             /\ start_log[2].stopped_ = FALSE
             /\ start_log[2].subscribers = start_log[1].subscribers
        ELSE /\ Steps(start_log) = <<"start", "stopped_ = false",
                                     "subscribe_stop", "handler(success)">>
             /\ start_log[2].stopped_ = FALSE
             /\ start_log[2].subscribers = start_log[1].subscribers
             /\ \/ /\ start_log[3].subscribers = start_log[2].subscribers + 1
                   /\ start_log[3].stopped_ = FALSE
                \/ /\ network.stopped
                   /\ start_log[3].subscribers = start_log[2].subscribers
                   /\ start_log[3].stopped_ = TRUE
             /\ start_log[4].stopped_ = start_log[3].stopped_
             /\ start_log[4].subscribers = start_log[3].subscribers

\* A second start of a started session failed and the session stays started
\* with its single subscription.
C6_Witness ==
    /\ Len(start_log) = 2
    /\ start_log[2].step = "handler(operation_failed)"
    /\ ~stopped_
    /\ network.subscribers = 1

Armed(c, t) == chan[c][t].armed

Delivers(c, t) == InFlight(chan'[c][t]) < InFlight(chan[c][t])

\* C8: a stopped channel has neither timer armed; a timer callback delivered
\* to a stopped channel changes nothing but its own consumption; the timer
\* callbacks call stop at most once and a channel that was active and has
\* stopped was torn down exactly once.
C8_StopOnce ==
    /\ [](\A c \in Channels :
            /\ proxy_stopped(chan[c]) =>
                  ~Armed(c, "expiration_") /\ ~Armed(c, "inactivity_")
            /\ chan[c].timeouts <= 1
            /\ chan[c].teardowns <= 1
            /\ chan[c].state = "stopped" => chan[c].teardowns = 1
            /\ chan[c].timeouts = 1 => channel_timeout \in chan[c].stops)
    /\ [][\A c \in Channels, t \in Timers :
            (proxy_stopped(chan[c]) /\ Delivers(c, t)) =>
                \E ec \in {success, channel_stopped} :
                    chan'[c] = Delivered(chan[c], t, ec)]_vars

\* After an external stop a timer callback that had already fired was
\* delivered and did nothing more.
C8_Witness ==
    \E c \in Channels :
        /\ chan[c].stale
        /\ chan[c].teardowns = 1
        /\ chan[c].timeouts = 0
        /\ chan[c].stops = {bad_stream}

\* The transport start of a caller's channel.start completes in this step.
Completes(c) == "direct" \in chan[c].pending /\ "direct" \notin chan'[c].pending

\* C9: no timer is armed on a channel whose transport start has not
\* succeeded, and when the transport start succeeds both timers are armed
\* and the handler receives success.
C9_TimersAfterTransport ==
    /\ [](\A c \in Channels, t \in Timers :
            chan[c].state = "created" =>
                ~Armed(c, t) /\ InFlight(chan[c][t]) = 0)
    /\ [][\A c \in Channels :
            (Completes(c) /\ chan'[c].direct[1].transport = success) =>
                /\ chan[c].state = "created"
                /\ chan'[c].state = "active"
                /\ Armed(c, "expiration_")' /\ Armed(c, "inactivity_")'
                /\ chan'[c].direct[1].handler = success]_vars

\* A first channel.start completed: both timers armed, success handed back.
C9_Witness ==
    \E c \in Channels :
        /\ chan[c].direct = <<[transport |-> success, handler |-> success]>>
        /\ Armed(c, "expiration_") /\ Armed(c, "inactivity_")

\* C10 as claimed: a channel.start that completes on a channel already
\* started leaves both timers as they were and either hands an error to the
\* handler or changes nothing else of the channel.
C10_SecondStartNoRearm ==
    [][\A c \in Channels :
          (Completes(c) /\ chan[c].state = "active") =>
              /\ chan'[c].expiration_ = chan[c].expiration_
              /\ chan'[c].inactivity_ = chan[c].inactivity_
              /\ chan'[c].direct[1].handler # success]_vars

\* C11: signal_activity on any reachable channel leaves the expiration timer
\* as it was (armed state, pending wait and callbacks in flight) and changes
\* nothing but the inactivity timer, which it restarts on an active channel;
\* on a channel that is stopped it changes nothing at all.
C11_ActivityFrame ==
    \A c \in Channels :
        LET after == signal_activity(chan[c])
        IN  /\ after.expiration_ = chan[c].expiration_
            /\ after = [chan[c] EXCEPT !.inactivity_ = after.inactivity_]
            /\ proxy_stopped(chan[c]) => after = chan[c]
            /\ ~proxy_stopped(chan[c]) =>
                  after.inactivity_ = deadline_start(chan[c].inactivity_)

\* Activity restarted the inactivity timer of an active channel (its
\* cancelled wait is in flight) and the expiration timer's first wait is
\* still pending.
C11_Witness ==
    \E c \in Channels :
        /\ chan[c].state = "active"
        /\ Armed(c, "inactivity_") /\ chan[c].inactivity_.aborted = 1
        /\ Armed(c, "expiration_") /\ InFlight(chan[c].expiration_) = 0

Variant(v) ==
    IF v >= bip61 THEN "protocol_version_70002" ELSE "protocol_version_31402"

\* C13: a registration has attached and started at most one handshake
\* variant, exactly one once it waits for or is past the handshake stage,
\* and it is protocol_version_70002 if the channel's negotiated version is
\* at least bip61 and protocol_version_31402 if it is below; the same holds
\* of attach_handshake_protocols for every version around the threshold.
C13_OneVariant ==
    \A c \in Channels :
        /\ Len(reg[c].protocols) <= 1
        /\ reg[c].pc \in {"handshake", "subscribed"} =>
              Len(reg[c].protocols) = 1
        /\ reg[c].protocols # <<>> =>
              reg[c].protocols = <<Variant(chan[c].negotiated_version)>>
        /\ \A v \in (bip61 - 2)..(bip61 + 1) :
              LET x == [Ctx(c) EXCEPT !.ch.negotiated_version = v,
                                      !.r.protocols = <<>>]
              IN  attach_handshake_protocols(c, x).r.protocols = <<Variant(v)>>

\* A channel negotiated at exactly bip61 got the extended variant.
C13_Witness ==
    \E c \in Channels :
        /\ chan[c].negotiated_version = bip61
        /\ reg[c].protocols = <<"protocol_version_70002">>
        /\ reg[c].pc = "handshake"

\* C14 as claimed: a registration whose transport start failed has ended
\* with the transport's error handed to handle_started, has attached no
\* handshake variant and has not asked the Registry for admission.
C14_TransportFailureEnds ==
    \A c \in Channels :
        reg[c].transport \notin {"none", success} =>
            /\ reg[c].pc = "done"
            /\ \E i \in 1..Len(reg[c].events) :
                   reg[c].events[i] = Started(reg[c].transport)
            /\ reg[c].protocols = <<>>
            /\ reg[c].stores = <<>>

\* C15 as claimed: the code handed to handle_started by the pipeline is
\* success exactly if the transport start, the handshake and the admission
\* all succeeded, and otherwise the error of the first stage that failed;
\* on an error the channel has been stopped with it, handle_stopped has
\* received it and handle_started came last.
C15_FirstFailure ==
    \A c \in Channels :
        \A i \in 1..Len(reg[c].events) :
            (reg[c].events[i].h = "handle_started" /\ reg[c].transport # "none") =>
                LET e == reg[c].events[i].ec
                IN  /\ (e = success) <=>
                           (reg[c].transport = success /\ reg[c].stores = <<success>>)
                    /\ reg[c].transport # success => e = reg[c].transport
                    /\ (reg[c].transport = success /\ reg[c].stores = <<>>) =>
                           e \in HandshakeCodes \ {success}
                    /\ (reg[c].transport = success /\ reg[c].stores # <<>>) =>
                           <<e>> = reg[c].stores
                    /\ e # success =>
                           /\ e \in chan[c].stops
                           /\ reg[c].events = <<Stopped(e), Started(e)>>

\* C16: after a successful admission handle_stopped is invoked only by
\* handle_remove, in a step in which the channel is already stopped, after
\* the channel has left the admitted set and with success; so an admitted
\* channel has not had handle_stopped, a channel that had it is not
\* admitted, and under fairness an admitted channel that has stopped is
\* eventually removed and its handle_stopped invoked.
C16_StoppedAfterRemove ==
    /\ [](\A c \in Channels :
            /\ ~reg[c].listed
            /\ c \in network.admitted =>
                  reg[c].stores = <<success>> /\ ~Fired(c, "handle_stopped")
            /\ (reg[c].stores = <<success>> /\ Fired(c, "handle_stopped")) =>
                  /\ c \notin network.admitted
                  /\ reg[c].removes = 1
                  /\ Count(reg[c].events, "handle_stopped") = 1
                  /\ \E i \in 1..Len(reg[c].events) :
                         reg[c].events[i] = Stopped(success)
                  /\ chan[c].state = "stopped")
    /\ [][\A c \in Channels :
            (/\ reg'[c].stores = <<success>>
             /\ Fired(c, "handle_stopped")' /\ ~Fired(c, "handle_stopped")) =>
                /\ chan[c].state = "stopped"
                /\ reg'[c].removes = reg[c].removes + 1
                /\ c \notin network.admitted']_vars
    /\ \A c \in One :
          (c \in network.admitted /\ proxy_stopped(chan[c])) ~>
              (c \notin network.admitted /\ Fired(c, "handle_stopped"))

\* The channel stopped while its handshake completed: the subscription made
\* by handle_start was answered at once, before handle_started.
C16_Witness ==
    \E c \in Channels :
        /\ reg[c].stores = <<success>>
        /\ reg[c].events = <<Stopped(success), Started(success)>>
        /\ reg[c].removes = 1
        /\ c \notin network.admitted

\* The status codes a callback can be delivered with.
Codes ==
    {success, operation_failed, service_stopped, channel_stopped,
     channel_timeout, address_in_use, bad_stream}

\* C17: on every reachable channel and for every status, handle_expiration
\* and handle_inactivity stop the channel with channel_timeout if the
\* channel is not stopped and the status is neither channel_stopped nor
\* service_stopped, and change nothing otherwise; channel.stopped(status) is
\* true exactly if the channel is stopped or the status is one of the two.
C17_TimeoutGuard ==
    \A c \in Channels, ec \in Codes :
        LET acts == /\ ~proxy_stopped(chan[c])
                    /\ ec \notin {channel_stopped, service_stopped}
        IN  /\ channel_stopped_ec(chan[c], ec) <=> ~acts
            /\ \A after \in {handle_expiration(chan[c], ec),
                             handle_inactivity(chan[c], ec)} :
                   IF acts
                   THEN /\ after.state = "stopped"
                        /\ after.stops = chan[c].stops \cup {channel_timeout}
                        /\ after.timeouts = chan[c].timeouts + 1
                        /\ after.teardowns = chan[c].teardowns + 1
                        /\ ~after.expiration_.armed /\ ~after.inactivity_.armed
                   ELSE after = chan[c]

\* A timer callback stopped the channel with channel_timeout and the other
\* timer's callback, which had fired too, was delivered afterwards.
C17_Witness ==
    \E c \in Channels :
        /\ chan[c].stale
        /\ chan[c].timeouts = 1
        /\ chan[c].teardowns = 1
        /\ chan[c].stops = {channel_timeout}

\* C18 as claimed: a registration has asked the Registry for admission at
\* most once, and only if its transport start had completed with success
\* and the handshake variant it then started has completed.
C18_StoreLast ==
    \A c \in Channels :
        /\ Len(reg[c].stores) <= 1
        /\ reg[c].stores # <<>> =>
              /\ reg[c].transport = success
              /\ Len(reg[c].protocols) = 1
              /\ reg[c].pc \in {"subscribed", "done"}

\* The registration has got as far as the call of channel.start.
Requested(c) == "session" \in chan[c].pending \/ reg[c].transport # "none"

\* C19: a registration in flight has called channel.start; from that call
\* on the channel's notify equals the session's notify_on_connect and its
\* nonce is a value of 1..MaxNonce, both were already assigned when
\* channel.start was called, and no later step changes them.
C19_NotifyAndNonce ==
    /\ [](\A c \in Channels :
            /\ reg[c].pc \in {"starting", "handshake", "subscribed"} =>
                  Requested(c)
            /\ Requested(c) =>
                  /\ chan[c].notify_ = notify_on_connect_
                  /\ chan[c].nonce_ \in Nonces
                  /\ chan[c].nonce_ # 0
                  /\ chan[c].at_start = <<[notify_ |-> notify_on_connect_,
                                           nonce_ |-> chan[c].nonce_]>>)
    /\ [][\A c \in Channels :
            Requested(c) =>
                /\ chan'[c].nonce_ = chan[c].nonce_
                /\ chan'[c].notify_ = chan[c].notify_]_vars

\* A registration of a notifying session ran to its end after admission and
\* a later stop, its channel still carrying the nonce it was given.
C19_Witness ==
    \E c \in Channels :
        /\ notify_on_connect_ /\ chan[c].notify_
        /\ chan[c].nonce_ = MaxNonce
        /\ reg[c].stores = <<success>>
        /\ reg[c].pc = "done"

\* C20: the step in which the node-wide stop signal fires sets the stopped
\* flag of a subscribed session and changes no channel, no registration and
\* not the admitted set, and so does every step that turns the flag to
\* true; a registration that got past the entry check never has a handler
\* invoked with service_stopped, and if the session is stopped while it
\* waits for the handshake, the handshake's success still takes it to the
\* Registry and, admitted, to handle_started(success).
C20_StopOnlyFlag ==
    /\ [][(~network.stopped /\ network'.stopped) =>
              /\ network.subscribers > 0 => stopped_'
              /\ network.subscribers = 0 => stopped_' = stopped_
              /\ chan' = chan
              /\ reg' = reg
              /\ network'.admitted = network.admitted]_vars
    /\ [][(~stopped_ /\ stopped_') =>
              /\ chan' = chan
              /\ reg' = reg
              /\ network'.admitted = network.admitted]_vars
    /\ [](\A c \in Channels :
            /\ Requested(c) =>
                  \A i \in 1..Len(reg[c].events) :
                      reg[c].events[i].ec # service_stopped
            /\ (stopped_ /\ reg[c].pc = "handshake" /\ chan[c].state = "active") =>
                  LET x == handle_handshake(success, c, Ctx(c))
                      code == store_code(c, network.admitted)
                  IN  /\ x.r.stores = <<code>>
                      /\ code = success =>
                            /\ c \in x.adm
                            /\ x.r.events = <<Started(success)>>
                            /\ x.ch.state = "active")

\* The stop signal reached the session while a registration was waiting for
\* its handshake on an active channel.
C20_Witness ==
    \E c \in Channels :
        /\ network.stopped /\ stopped_
        /\ reg[c].pc = "handshake"
        /\ chan[c].state = "active"
        /\ reg[c].events = <<>>

\* C21: a registration calls Registry.remove at most once and only after its
\* own Registry.store succeeded; a registration refused by the stopped
\* session or failed in the channel start, the handshake or the admission
\* never calls it; and a channel leaves the admitted set only in the step in
\* which its own registration calls Registry.remove, which takes out that
\* channel alone.
C21_RemoveOnlyAdmitted ==
    /\ [](\A c \in Channels :
            /\ reg[c].removes <= 1
            /\ reg[c].removes = 1 => reg[c].stores = <<success>>
            /\ (\E i \in 1..Len(reg[c].events) :
                    reg[c].events[i].ec # success) => reg[c].removes = 0)
    /\ [][\A c \in Channels :
            /\ (c \in network.admitted /\ c \notin network.admitted') =>
                  reg'[c].removes = reg[c].removes + 1
            /\ reg'[c].removes # reg[c].removes =>
                  /\ reg'[c].stores = <<success>>
                  /\ network.admitted' = (network.admitted \ {c})]_vars

\* A registration collided with an admitted channel of the same nonce and
\* failed without a remove; the admitted channel stopped later and was
\* removed by its own registration.
C21_Witness ==
    \E c, d \in Channels :
        /\ SameNonce(c, d)
        /\ reg[c].stores = <<address_in_use>>
        /\ reg[c].removes = 0
        /\ reg[c].pc = "done"
        /\ reg[d].stores = <<success>>
        /\ reg[d].removes = 1

====
